---------------------------- MODULE Spec2Model ----------------------------
(***************************************************************************)
(* RFQ Assistant (RFQ_Assistant_.py): a Streamlit script that reads an     *)
(* uploaded table, sends the selected column of every row to a remote      *)
(* text-generation service, parses each response into ten named fields by  *)
(* line-prefix matching, stores the resulting table in the session and     *)
(* lets the user edit, download and clear it.                              *)
(*                                                                         *)
(* Strings whose content the program inspects are sequences of one-        *)
(* character strings, so that strip, lower, startswith, split and          *)
(* splitlines are computed as Python computes them.  Column names are      *)
(* TLA+ strings; colText gives the characters of a FieldSet name.          *)
(***************************************************************************)
EXTENDS Integers, Sequences, FiniteSets, TLC

(***************************************************************************)
(* Bounds of the model.                                                    *)
(***************************************************************************)
\* largest number of rows of an uploaded table
MaxRows == 3
\* largest number of lines of a response text in SpecExtract
MaxLines == 3
\* largest number of grid edits after one processing run
MaxEdits == 1

(***************************************************************************)
(* Text constants of the program.                                          *)
(***************************************************************************)
\* output_cols, lines 103-104
output_cols == << "Product Category", "Product SubCategory", "Product Type", "Material of Construction", "Size or Dimension", "Standards", "Finish", "Miscellaneous Info", "Cautions", "Assumption Reasons" >>

\* the characters of each name of output_cols
colText == [ c \in { output_cols[k] : k \in 1..Len(output_cols) } |->
   CASE c = "Product Category" -> <<"P","r","o","d","u","c","t"," ","C","a","t","e","g","o","r","y">>
     [] c = "Product SubCategory" -> <<"P","r","o","d","u","c","t"," ","S","u","b","C","a","t","e","g","o","r","y">>
     [] c = "Product Type" -> <<"P","r","o","d","u","c","t"," ","T","y","p","e">>
     [] c = "Material of Construction" -> <<"M","a","t","e","r","i","a","l"," ","o","f"," ","C","o","n","s","t","r","u","c","t","i","o","n">>
     [] c = "Size or Dimension" -> <<"S","i","z","e"," ","o","r"," ","D","i","m","e","n","s","i","o","n">>
     [] c = "Standards" -> <<"S","t","a","n","d","a","r","d","s">>
     [] c = "Finish" -> <<"F","i","n","i","s","h">>
     [] c = "Miscellaneous Info" -> <<"M","i","s","c","e","l","l","a","n","e","o","u","s"," ","I","n","f","o">>
     [] c = "Cautions" -> <<"C","a","u","t","i","o","n","s">>
     [] c = "Assumption Reasons" -> <<"A","s","s","u","m","p","t","i","o","n"," ","R","e","a","s","o","n","s">> ]

\* the set of FieldSet names
FieldSet == DOMAIN colText

\* "ERROR: ", line 97
ErrorPrefix == <<"E","R","R","O","R",":"," ">>

\* str() of an empty cell (NaN)
NanText == <<"n","a","n">>

\* current_col = None, line 110
NoCol == "<None>"

(***************************************************************************)
(* Python string operations.                                               *)
(***************************************************************************)
Min(S) == CHOOSE x \in S : \A y \in S : x <= y

Max(S) == CHOOSE x \in S : \A y \in S : x >= y

\* str.lower() on one character
upperToLower == [A |-> "a", B |-> "b", C |-> "c", D |-> "d", E |-> "e", F |-> "f", G |-> "g", H |-> "h", I |-> "i", J |-> "j", K |-> "k", L |-> "l", M |-> "m", N |-> "n", O |-> "o", P |-> "p", Q |-> "q", R |-> "r", S |-> "s", T |-> "t", U |-> "u", V |-> "v", W |-> "w", X |-> "x", Y |-> "y", Z |-> "z"]

LowerChar(c) == IF c \in DOMAIN upperToLower THEN upperToLower[c] ELSE c

\* str.lower()
Lower(s) == [k \in 1..Len(s) |-> LowerChar(s[k])]

\* the characters str.strip() removes
IsSpace(c) == c \in {" ", "\t", "\n", "\r", "\f"}

\* str.strip()
Strip(s) ==
  LET keep == { k \in 1..Len(s) : ~IsSpace(s[k]) }
  IN  IF keep = {} THEN <<>> ELSE SubSeq(s, Min(keep), Max(keep))

\* str.startswith(p)
StartsWith(s, p) == Len(s) >= Len(p) /\ SubSeq(s, 1, Len(p)) = p

\* str.splitlines(): lines end at \n, \r, \r\n or \f; no empty last line
RECURSIVE SplitLines(_)
SplitLines(s) ==
  IF s = <<>> THEN <<>>
  ELSE LET brk == { k \in 1..Len(s) : s[k] \in {"\n", "\r", "\f"} }
       IN  IF brk = {} THEN <<s>>
           ELSE LET b == Min(brk)
                    e == IF s[b] = "\r" /\ b < Len(s) /\ s[b+1] = "\n" THEN b + 1 ELSE b
                IN  <<SubSeq(s, 1, b - 1)>> \o SplitLines(SubSeq(s, e + 1, Len(s)))

(***************************************************************************)
(* Field Extractor, lines 107-127: the body of the loop over lines.        *)
(***************************************************************************)
PrefixMatchesCaseSensitive(line, col) == StartsWith(line, colText[col] \o <<":">>)

\* line.lower().startswith(col.lower() + ":"), line 115
PrefixMatches(line, col) == StartsWith(Lower(line), Lower(colText[col]) \o <<":">>)

\* for col in output_cols: if ...: break, lines 114-120: the first column in
\* the order of output_cols whose prefix the stripped line starts with
MatchedCol(line) ==
  LET hits == { k \in 1..Len(output_cols) : PrefixMatches(line, output_cols[k]) }
  IN  IF hits = {} THEN NoCol ELSE output_cols[Min(hits)]

\* line.split(":", 1)[-1].strip(), line 116
FieldValue(line) ==
  LET colons == { k \in 1..Len(line) : line[k] = ":" }
  IN  IF colons = {} THEN Strip(line) ELSE Strip(SubSeq(line, Min(colons) + 1, Len(line)))

AssignFieldAppending(d, col, value) == [d EXCEPT ![col] = @ \o value]

\* out_dict[col] = value, line 117
AssignField(d, col, value) == [d EXCEPT ![col] = value]

AppendContinuationNoSeparator(d, cur, line) ==
  IF cur # NoCol THEN [d EXCEPT ![cur] = @ \o line] ELSE d

AppendContinuationDefaultFirst(d, cur, line) ==
  IF cur # NoCol THEN [d EXCEPT ![cur] = @ \o <<"\n">> \o line]
  ELSE [d EXCEPT ![output_cols[1]] = @ \o <<"\n">> \o line]

\* if not matched and current_col: out_dict[current_col] += "\n" + line,
\* lines 122-124 (the caller has established not matched)
AppendContinuation(d, cur, line) ==
  IF cur # NoCol THEN [d EXCEPT ![cur] = @ \o <<"\n">> \o line] ELSE d

\* out_dict = {col: "" for col in output_cols}, line 109
EmptyOutDict == [c \in FieldSet |-> <<>>]

\* one pass of the loop body, lines 112-124, on the raw line: the new
\* out_dict and current_col
LineBody(d, cur, raw) ==
  LET line == Strip(raw)
      col  == MatchedCol(line)
  IN  IF col # NoCol
      THEN [out_dict |-> AssignField(d, col, FieldValue(line)), current_col |-> col]
      ELSE [out_dict |-> AppendContinuation(d, cur, line), current_col |-> cur]

(***************************************************************************)
(* Tables (pandas DataFrame): column names and rows of cells, by position. *)
(* A cell is text or empty (NaN).                                          *)
(***************************************************************************)
TextCell(s) == [t |-> "str", s |-> s]

NanCell == [t |-> "nan", s |-> <<>>]

\* str(cell), line 76
Str(cell) == IF cell.t = "nan" THEN NanText ELSE cell.s

None == [kind |-> "None"]

DataFrame(columns, data) == [kind |-> "DataFrame", columns |-> columns, data |-> data]

NumRows(frame) == Len(frame.data)

\* row[selected_col], line 76: the cell of the (first) column of that name
CellOf(frame, row, name) ==
  row[Min({ p \in 1..Len(frame.columns) : frame.columns[p] = name })]

\* df[col] = values, line 130: replaces the column of that name, or adds it
SetColumn(frame, name, values) ==
  IF \E p \in 1..Len(frame.columns) : frame.columns[p] = name
  THEN DataFrame(frame.columns,
                 [k \in 1..NumRows(frame) |->
                    [p \in 1..Len(frame.columns) |->
                       IF frame.columns[p] = name THEN values[k] ELSE frame.data[k][p]]])
  ELSE DataFrame(Append(frame.columns, name),
                 [k \in 1..NumRows(frame) |-> Append(frame.data[k], values[k])])

\* df[[names]], line 133: the named columns, in the order asked for
SelectColumns(frame, names) ==
  DataFrame(names,
            [k \in 1..NumRows(frame) |->
               [q \in 1..Len(names) |-> CellOf(frame, frame.data[k], names[q])]])

\* for col in output_cols: df[col] = parsed_outputs[col], lines 129-130
RECURSIVE AssignOutputColumns(_, _, _)
AssignOutputColumns(frame, parsed, k) ==
  IF k > Len(output_cols) THEN frame
  ELSE AssignOutputColumns(
         SetColumn(frame, output_cols[k],
                   [r \in 1..Len(parsed[output_cols[k]]) |-> TextCell(parsed[output_cols[k]][r])]),
         parsed, k + 1)

\* df[[selected_col] + output_cols].copy(), line 133
SelectOutput(frame, col) == SelectColumns(frame, <<col>> \o output_cols)

(***************************************************************************)
(* Inputs: uploaded tables, responses of the generation service, failure   *)
(* messages, response lines for the extractor, grid edits.                 *)
(***************************************************************************)
InputColumns == <<"Description", "Finish">>

\* the rows of the uploaded tables: "pipe 2in" | "zinc", then "bolt" | (empty),
\* then the same again
InputRow(k) ==
  IF k % 2 = 1
  THEN << TextCell(<<"p","i","p","e"," ","2","i","n">>), TextCell(<<"z","i","n","c">>) >>
  ELSE << TextCell(<<"b","o","l","t">>), NanCell >>

InputTables == { DataFrame(InputColumns, [k \in 1..n |-> InputRow(k)]) : n \in 0..MaxRows }

RECURSIVE SeqsUpTo(_, _)
SeqsUpTo(S, n) ==
  IF n = 0 THEN { <<>> }
  ELSE LET shorter == SeqsUpTo(S, n - 1)
       IN  shorter \cup { Append(q, x) : q \in shorter, x \in S }

\* "Product Category: Pipe\nSize or Dimension: 2in\nMore info here"
TextPipe == <<"P","r","o","d","u","c","t"," ","C","a","t","e","g","o","r","y",":"," ","P","i","p","e","\n","S","i","z","e"," ","o","r"," ","D","i","m","e","n","s","i","o","n",":"," ","2","i","n","\n","M","o","r","e"," ","i","n","f","o"," ","h","e","r","e">>

\* "intro\nFinish: A\r\n cont \nFINISH: B"
TextFinish == <<"i","n","t","r","o","\n","F","i","n","i","s","h",":"," ","A","\r","\n"," ","c","o","n","t"," ","\n","F","I","N","I","S","H",":"," ","B">>

Responses == { TextPipe, TextFinish }

\* "timeout" and "bad request\nCautions: quota"
FailureMessages ==
  { <<"t","i","m","e","o","u","t">>,
    <<"b","a","d"," ","r","e","q","u","e","s","t","\n","C","a","u","t","i","o","n","s",":"," ","q","u","o","t","a">> }

\* "PRODUCT TYPE: X", "More info here", "  Finish: A ", "finish:", "Finish : C",
\* "Standards: ISO: 9001", "Note: Finish: Z", "" and "ERROR: timeout"
ExtractLines ==
  { <<"P","R","O","D","U","C","T"," ","T","Y","P","E",":"," ","X">>,
    <<"M","o","r","e"," ","i","n","f","o"," ","h","e","r","e">>,
    <<" "," ","F","i","n","i","s","h",":"," ","A"," ">>,
    <<"f","i","n","i","s","h",":">>,
    <<"F","i","n","i","s","h"," ",":"," ","C">>,
    <<"S","t","a","n","d","a","r","d","s",":"," ","I","S","O",":"," ","9","0","0","1">>,
    <<"N","o","t","e",":"," ","F","i","n","i","s","h",":"," ","Z">>,
    <<>>,
    <<"E","R","R","O","R",":"," ","t","i","m","e","o","u","t">> }

RECURSIVE JoinLines(_)
JoinLines(ls) ==
  IF ls = <<>> THEN <<>>
  ELSE IF Len(ls) = 1 THEN ls[1]
  ELSE ls[1] \o <<"\n">> \o JoinLines(Tail(ls))

ExtractTexts == { JoinLines(ls) : ls \in SeqsUpTo(ExtractLines, MaxLines) }

(***************************************************************************)
(* State.                                                                  *)
(***************************************************************************)
VARIABLES
  processed_df,    \* st.session_state.processed_df: None or a table
  has_processed,   \* st.session_state.has_processed
  original_df,     \* st.session_state.original_df: None or a table
  selected_col,    \* st.session_state.selected_col
  editable_table,  \* st.session_state.editable_table, the data editor's value
  uploaded_file,   \* the file uploader's value: None or the file's table
  messages,        \* what st.success / st.info / st.error show on the page
  results_shown,   \* whether the page shows the results section (line 141)
  pc,              \* "idle": the script run has ended; else the place in the run
  df,              \* the script's df
  it,              \* rows df.iterrows() has yielded
  i,               \* the loop's i
  desc,            \* the loop's desc
  output_texts,    \* line 73
  parsed_outputs,  \* line 105
  t,               \* texts the loop of line 107 has taken
  lines,           \* line 108
  li,              \* lines the loop of line 111 has taken
  out_dict,        \* line 109
  current_col,     \* line 110
  events,          \* the calls made so far by the current processing run:
                   \* requests, their outcomes, progress updates, pauses
  edits            \* grid edits since the table was stored

vars == << processed_df, has_processed, original_df, selected_col, editable_table,
           uploaded_file, messages, results_shown, pc, df, it, i, desc, output_texts,
           parsed_outputs, t, lines, li, out_dict, current_col, events, edits >>

session == << processed_df, has_processed, original_df, selected_col >>

locals == << df, it, i, desc, output_texts, parsed_outputs, t, lines, li, out_dict, current_col >>

extraction == << t, lines, li, out_dict, current_col, parsed_outputs >>

Event(e, row, text) == [e |-> e, row |-> row, text |-> text]

\* the script's variables before any assignment
NoLocals ==
  /\ df = None /\ it = 0 /\ i = 0 /\ desc = <<>> /\ output_texts = <<>>
  /\ parsed_outputs = [c \in FieldSet |-> <<>>] /\ t = 0 /\ lines = <<>> /\ li = 0
  /\ out_dict = EmptyOutDict /\ current_col = NoCol

\* lines 10-17 of the first run, with no file uploaded (line 191)
Init ==
  /\ processed_df = None
  /\ has_processed = FALSE
  /\ original_df = None
  /\ selected_col = NoCol
  /\ editable_table = None
  /\ uploaded_file = None
  /\ messages = {"Please upload an Excel file to begin."}
  /\ results_shown = FALSE
  /\ pc = "idle"
  /\ NoLocals
  /\ events = <<>>
  /\ edits = 0

(***************************************************************************)
(* A script run that neither processes nor clears: lines 10-17, 43-68 and  *)
(* 141-188.                                                                *)
(***************************************************************************)
\* st.selectbox(..., df.columns), line 57: the widget keeps the user's choice
\* while it is among the options, and starts at the first option
SelectboxValue(columns, chosen) ==
  IF \E p \in 1..Len(columns) : columns[p] = chosen THEN chosen ELSE columns[1]

\* lines 141-152: whether the results section is shown, and processed_df
\* after the guard of lines 146-152 (a failed coercion stores None and
\* reruns, and the rerun skips the section)
ResultsSection(hp, pdf) ==
  IF hp /\ pdf.kind # "None"
  THEN IF pdf.kind # "DataFrame"
       THEN { [processed_df |-> DataFrame(pdf.columns, pdf.data), shown |-> TRUE],
              [processed_df |-> None, shown |-> FALSE] }
       ELSE { [processed_df |-> pdf, shown |-> TRUE] }
  ELSE { [processed_df |-> pdf, shown |-> FALSE] }

\* the run, from the session as the callback left it (hp, pdf), the select
\* box's choice (chosen), the data editor's value (editor) and what the
\* callback showed (shownByCallback); a run that does not show the data
\* editor drops its value
Render(file, hp, pdf, chosen, editor, shownByCallback) ==
  /\ uploaded_file' = file
  /\ pc' = "idle"
  /\ has_processed' = hp
  /\ IF file = None
     THEN /\ messages' = shownByCallback \cup {"Please upload an Excel file to begin."}
          /\ results_shown' = FALSE
          /\ editable_table' = None
          /\ processed_df' = pdf
          /\ UNCHANGED << original_df, selected_col >>
     ELSE /\ IF ~hp
             THEN /\ original_df' = file
                  /\ selected_col' = SelectboxValue(file.columns, chosen)
                  /\ messages' = shownByCallback \cup {"Uploaded file"}
             ELSE /\ UNCHANGED << original_df, selected_col >>
                  /\ messages' = shownByCallback \cup {"Using previously uploaded file"}
          /\ \E r \in ResultsSection(hp, pdf) :
                /\ processed_df' = r.processed_df
                /\ results_shown' = r.shown
                /\ editable_table' = IF r.shown THEN editor ELSE None

\* the user uploads a file
Upload ==
  /\ pc = "idle" /\ uploaded_file = None
  /\ \E file \in InputTables : Render(file, has_processed, processed_df, selected_col, editable_table, {})
  /\ UNCHANGED << locals, events, edits >>

\* the user removes the uploaded file
RemoveFile ==
  /\ pc = "idle" /\ uploaded_file # None
  /\ Render(None, has_processed, processed_df, selected_col, editable_table, {})
  /\ UNCHANGED << locals, events, edits >>

\* the user picks a column in the select box (enabled while not processed)
SelectColumn ==
  /\ pc = "idle" /\ uploaded_file # None /\ ~has_processed
  /\ \E p \in 1..Len(uploaded_file.columns) :
        /\ uploaded_file.columns[p] # selected_col
        /\ Render(uploaded_file, has_processed, processed_df, uploaded_file.columns[p], editable_table, {})
  /\ UNCHANGED << locals, events, edits >>

\* any other interaction (for instance the download button): a plain rerun
Rerun ==
  /\ pc = "idle"
  /\ Render(uploaded_file, has_processed, processed_df, selected_col, editable_table, {})
  /\ UNCHANGED << locals, events, edits >>

(***************************************************************************)
(* The processing run, lines 71-138.                                       *)
(***************************************************************************)
ClearLocals ==
  /\ df' = None /\ it' = 0 /\ i' = 0 /\ desc' = <<>> /\ output_texts' = <<>>
  /\ parsed_outputs' = [c \in FieldSet |-> <<>>] /\ t' = 0 /\ lines' = <<>> /\ li' = 0
  /\ out_dict' = EmptyOutDict /\ current_col' = NoCol

\* the user clicks "Process with Assistant" (enabled while not processed):
\* lines 45-73 of the run
ProcessClick ==
  /\ pc = "idle" /\ uploaded_file # None /\ ~has_processed
  /\ df' = uploaded_file
  /\ original_df' = uploaded_file
  /\ selected_col' = SelectboxValue(uploaded_file.columns, selected_col)
  /\ messages' = {"Uploaded file", "Running assistant on each row..."}
  /\ results_shown' = FALSE
  /\ output_texts' = <<>>
  /\ it' = 0
  /\ events' = <<>>
  /\ pc' = "loop"
  /\ UNCHANGED << processed_df, has_processed, editable_table, uploaded_file, i, desc,
                  extraction, edits >>

LoopDoneAfterOne(taken, frame) == taken >= 1 \/ taken >= NumRows(frame)

\* df.iterrows() is exhausted, line 75
LoopDone(taken, frame) == taken >= NumRows(frame)

\* for i, row in df.iterrows(): desc = str(row[selected_col]), lines 75-76;
\* after the last row, lines 103-105
LoopHead ==
  /\ pc = "loop"
  /\ IF ~LoopDone(it, df)
     THEN /\ i' = it
          /\ it' = it + 1
          /\ desc' = Str(CellOf(df, df.data[it + 1], selected_col))
          /\ pc' = "call"
          /\ UNCHANGED extraction
     ELSE /\ parsed_outputs' = [c \in FieldSet |-> <<>>]
          /\ t' = 0
          /\ pc' = "text"
          /\ UNCHANGED << i, it, desc, lines, li, out_dict, current_col >>
  /\ UNCHANGED << session, editable_table, uploaded_file, messages, results_shown, df,
                  output_texts, events, edits >>

\* client.responses.create(...) is called, lines 79-90
IssueRequest ==
  /\ pc = "call"
  /\ events' = Append(events, Event("request", i, desc))
  /\ pc' = "wait"
  /\ UNCHANGED << session, editable_table, uploaded_file, messages, results_shown,
                  locals, edits >>

\* the call returns: output_texts.append(response.output_text), lines 91-95
RespondOk ==
  /\ pc = "wait"
  /\ \E text \in Responses :
        /\ output_texts' = Append(output_texts, text)
        /\ events' = Append(events, Event("response", i, text))
  /\ pc' = "progress"
  /\ UNCHANGED << session, editable_table, uploaded_file, messages, results_shown,
                  df, it, i, desc, extraction, edits >>

\* f"ERROR: {str(e)}", line 97
ErrorRecord(message) == ErrorPrefix \o message

ExceptThenRetry == "call"

ExceptThenNextRow == "loop"

\* where the run goes on after the except clause: line 99
AfterExcept == "progress"

\* the call raises: output_texts.append(f"ERROR: {str(e)}"), lines 96-97
RespondError ==
  /\ pc = "wait"
  /\ \E message \in FailureMessages :
        /\ output_texts' = Append(output_texts, ErrorRecord(message))
        /\ events' = Append(events, Event("error", i, message))
  /\ pc' = AfterExcept
  /\ UNCHANGED << session, editable_table, uploaded_file, messages, results_shown,
                  df, it, i, desc, extraction, edits >>

\* progress.progress((i + 1) / len(df), ...), line 99
Progress ==
  /\ pc = "progress"
  /\ events' = Append(events, Event("progress", i, <<>>))
  /\ messages' = {"Uploaded file", "Processed rows"}
  /\ pc' = "sleep"
  /\ UNCHANGED << session, editable_table, uploaded_file, results_shown, locals, edits >>

\* time.sleep(0.5), line 100
Sleep ==
  /\ pc = "sleep"
  /\ events' = Append(events, Event("sleep", i, <<>>))
  /\ pc' = "loop"
  /\ UNCHANGED << session, editable_table, uploaded_file, messages, results_shown,
                  locals, edits >>

\* for text in output_texts: lines 107-110; after the last text, the run
\* goes on to line 129
TextHead ==
  /\ pc = "text"
  /\ IF t < Len(output_texts)
     THEN /\ lines' = SplitLines(output_texts[t + 1])
          /\ out_dict' = EmptyOutDict
          /\ current_col' = NoCol
          /\ li' = 0
          /\ t' = t + 1
          /\ pc' = "line"
     ELSE /\ pc' = "assemble"
          /\ UNCHANGED << t, lines, li, out_dict, current_col >>
  /\ UNCHANGED << session, editable_table, uploaded_file, messages, results_shown,
                  df, it, i, desc, output_texts, parsed_outputs, events, edits >>

\* for line in lines: lines 111-124
ExtractLine ==
  /\ pc = "line" /\ li < Len(lines)
  /\ LET r == LineBody(out_dict, current_col, lines[li + 1])
     IN  out_dict' = r.out_dict /\ current_col' = r.current_col
  /\ li' = li + 1
  /\ UNCHANGED << session, editable_table, uploaded_file, messages, results_shown, pc,
                  df, it, i, desc, output_texts, parsed_outputs, t, lines, events, edits >>

\* for col in output_cols: parsed_outputs[col].append(out_dict[col]), lines 126-127
ExtractEnd ==
  /\ pc = "line" /\ li = Len(lines)
  /\ parsed_outputs' = [c \in FieldSet |-> Append(parsed_outputs[c], out_dict[c])]
  /\ pc' = "text"
  /\ UNCHANGED << session, editable_table, uploaded_file, messages, results_shown,
                  df, it, i, desc, output_texts, t, lines, li, out_dict, current_col,
                  events, edits >>

\* lines 129-138: the table is assembled and stored, has_processed is set,
\* and st.rerun() runs the script again
Assemble ==
  /\ pc = "assemble"
  /\ LET stored == SelectOutput(AssignOutputColumns(df, parsed_outputs, 1), selected_col)
     IN  Render(uploaded_file, TRUE, stored, selected_col, None, {})
  /\ ClearLocals
  /\ edits' = 0
  /\ UNCHANGED events

(***************************************************************************)
(* The review grid and the clear button, lines 20-29 and 155-188.          *)
(***************************************************************************)
\* a row the user adds in the grid
BlankRow(frame) == [p \in 1..Len(frame.columns) |-> NanCell]

\* the tables the grid can hold after one edit of the table it shows
EditedTables(frame) ==
  { DataFrame(frame.columns, Append(frame.data, BlankRow(frame))) }
  \cup (IF NumRows(frame) > 0
        THEN { DataFrame(frame.columns, SubSeq(frame.data, 1, NumRows(frame) - 1)) }
        ELSE {})

\* the values st.session_state.editable_table can have after an edit: a
\* DataFrame, another value pd.DataFrame() accepts, or one it rejects
EditValues(frame) ==
  EditedTables(frame)
  \cup { [kind |-> "records", columns |-> e.columns, data |-> e.data] : e \in EditedTables(frame) }
  \cup { [kind |-> "unconvertible", columns |-> <<>>, data |-> <<>>] }

OnCoercionFailureReset(pdf) == None

\* except Exception as e: st.error(...), lines 28-29: processed_df is not assigned
OnCoercionFailure(pdf) == pdf

\* handle_table_edit, lines 20-29: the new processed_df and whether st.error ran
HandleTableEdit(value, pdf) ==
  IF value.kind = "DataFrame"
  THEN [processed_df |-> value, error |-> FALSE]
  ELSE IF value.kind = "records"
       THEN [processed_df |-> DataFrame(value.columns, value.data), error |-> FALSE]
       ELSE [processed_df |-> OnCoercionFailure(pdf), error |-> TRUE]

\* the user edits the grid: the on_change callback, then the script reruns
Edit ==
  /\ pc = "idle" /\ results_shown /\ edits < MaxEdits
  /\ \E value \in EditValues(processed_df) :
        LET r == HandleTableEdit(value, processed_df)
        IN  Render(uploaded_file, has_processed, r.processed_df, selected_col, value,
                   IF r.error THEN {"Error updating table"} ELSE {})
  /\ edits' = edits + 1
  /\ UNCHANGED << locals, events >>

ClearedKeysWithoutFlag == {"processed_df", "original_df", "selected_col"}

\* the keys deleted from st.session_state, line 185
ClearedKeys == {"processed_df", "has_processed", "original_df", "selected_col"}

\* the user clicks "Clear Results and Start Over", lines 184-188: the four
\* keys are deleted, st.rerun() runs the script again, and lines 10-17 set them
Reset ==
  /\ pc = "idle" /\ results_shown
  /\ Render(uploaded_file,
            IF "has_processed" \in ClearedKeys THEN FALSE ELSE has_processed,
            IF "processed_df" \in ClearedKeys THEN None ELSE processed_df,
            IF "selected_col" \in ClearedKeys THEN NoCol ELSE selected_col,
            None, {})
  /\ events' = <<>>
  /\ edits' = 0
  /\ UNCHANGED locals

Next ==
  \/ Upload \/ RemoveFile \/ SelectColumn \/ Rerun
  \/ ProcessClick \/ LoopHead \/ IssueRequest \/ RespondOk \/ RespondError
  \/ Progress \/ Sleep \/ TextHead \/ ExtractLine \/ ExtractEnd \/ Assemble
  \/ Edit \/ Reset

Spec == Init /\ [][Next]_vars

(***************************************************************************)
(* The Field Extractor alone: the run has made its one request for a       *)
(* one-row table, the service has answered with any text of ExtractTexts,  *)
(* and the loop of line 107 is about to start.                             *)
(***************************************************************************)
ExtractTable == DataFrame(InputColumns, << InputRow(1) >>)

InitExtract ==
  /\ processed_df = None
  /\ has_processed = FALSE
  /\ original_df = ExtractTable
  /\ selected_col = InputColumns[1]
  /\ editable_table = None
  /\ uploaded_file = ExtractTable
  /\ messages = {"Uploaded file", "Processed rows"}
  /\ results_shown = FALSE
  /\ pc = "text"
  /\ df = ExtractTable
  /\ it = 1 /\ i = 0
  /\ desc = Str(ExtractTable.data[1][1])
  /\ \E text \in ExtractTexts :
        /\ output_texts = << text >>
        /\ events = << Event("request", 0, desc), Event("response", 0, text),
                       Event("progress", 0, <<>>), Event("sleep", 0, <<>>) >>
  /\ parsed_outputs = [c \in FieldSet |-> <<>>]
  /\ t = 0 /\ lines = <<>> /\ li = 0
  /\ out_dict = EmptyOutDict /\ current_col = NoCol
  /\ edits = 0

NextExtract == TextHead \/ ExtractLine \/ ExtractEnd \/ Assemble

SpecExtract == InitExtract /\ [][NextExtract]_vars

(***************************************************************************)
(* Vocabulary of the properties.                                           *)
(***************************************************************************)
\* two characters that are the same letter, whatever their case
SameLetter(a, b) ==
  \/ a = b
  \/ a \in DOMAIN upperToLower /\ upperToLower[a] = b
  \/ b \in DOMAIN upperToLower /\ upperToLower[b] = a

\* the stripped line s starts with "<name of f>:", letters compared without case
HasFieldPrefix(s, f) ==
  /\ Len(s) > Len(colText[f])
  /\ \A k \in 1..Len(colText[f]) : SameLetter(s[k], colText[f][k])
  /\ s[Len(colText[f]) + 1] = ":"

\* the positions in output_cols of the fields whose prefix the raw line has
FieldsOfLine(raw) == { q \in 1..Len(output_cols) : HasFieldPrefix(Strip(raw), output_cols[q]) }

IsFieldLine(raw) == FieldsOfLine(raw) # {}

\* the text after the first colon of the stripped line, trimmed
ValueAfterFirstColon(raw) ==
  LET s == Strip(raw)
      c == Min({ k \in 1..Len(s) : s[k] = ":" })
  IN  Strip(SubSeq(s, c + 1, Len(s)))

\* "\n" + line, for each of the lines a..b of ls, stripped
RECURSIVE Continuation(_, _, _)
Continuation(ls, a, b) ==
  IF a > b THEN <<>> ELSE <<"\n">> \o Strip(ls[a]) \o Continuation(ls, a + 1, b)

\* the value of field f after the first n lines of ls: nothing when no line
\* has its prefix; else the value of its last occurrence and the lines after
\* it up to the next field line
ExpectedValue(ls, n, f) ==
  LET occ == { j \in 1..n : \E q \in FieldsOfLine(ls[j]) : output_cols[q] = f }
  IN  IF occ = {} THEN <<>>
      ELSE LET m     == Max(occ)
               later == { j \in (m + 1)..n : IsFieldLine(ls[j]) }
               stop  == IF later = {} THEN n ELSE Min(later) - 1
           IN  ValueAfterFirstColon(ls[m]) \o Continuation(ls, m + 1, stop)

\* the lines of the text under extraction that have the prefix of field f
Occurrences(f) == { j \in 1..Len(lines) : \E q \in FieldsOfLine(lines[j]) : output_cols[q] = f }

\* the positions in events of the events of the given kinds
EventsOf(kinds) == { p \in 1..Len(events) : events[p].e \in kinds }

Outcomes == {"response", "error"}

\* the outcome recorded for the k-th row
OutcomeOf(k) == events[CHOOSE p \in EventsOf(Outcomes) : events[p].row = k - 1]

\* a run has completed and the grid has not been edited since
RunCompleted == pc = "idle" /\ has_processed /\ edits = 0

\* the text an "ERROR:" record holds for a failure message
ErrorMarked(text) == StartsWith(text, <<"E","R","R","O","R",":">>)

\* the FieldSet values of row k of the stored table: column q + 1 holds output_cols[q]
StoredField(k, q) == processed_df.data[k][q + 1]

AllFieldsEmpty(k) == \A q \in 1..Len(output_cols) : StoredField(k, q) = TextCell(<<>>)

(***************************************************************************)
(* C1.  A completed run stores a table with as many rows as the input, and *)
(* row k of it carries the description value of input row k.               *)
(***************************************************************************)
C1_RowsAndDescriptionsPreserved ==
  RunCompleted =>
    /\ NumRows(processed_df) = NumRows(original_df)
    /\ \A k \in 1..NumRows(original_df) :
          processed_df.data[k][1] = CellOf(original_df, original_df.data[k], selected_col)

(***************************************************************************)
(* C2.  Each row gets exactly one generation request; a failed request     *)
(* leaves exactly one record "ERROR: <message>" for its row, is not        *)
(* retried and does not end the batch; after the loop there are as many    *)
(* results as requests as rows.                                            *)
(***************************************************************************)
C2_OneRequestOneRecordPerRow ==
  LET requests == EventsOf({"request"})
      outcomes == EventsOf(Outcomes)
  IN  /\ \A p, q \in requests : events[p].row = events[q].row => p = q
      /\ \A p \in requests : events[p].row < (IF pc = "idle" THEN NumRows(original_df) ELSE it)
      /\ pc # "idle" =>
           /\ Len(output_texts) = Cardinality(outcomes)
           /\ Cardinality(requests) = Cardinality(outcomes) + (IF pc = "wait" THEN 1 ELSE 0)
           /\ \A p \in EventsOf({"error"}) :
                 output_texts[events[p].row + 1] = <<"E","R","R","O","R",":"," ">> \o events[p].text
           /\ \A p \in EventsOf({"response"}) :
                 output_texts[events[p].row + 1] = events[p].text
           /\ pc \in {"text", "line", "assemble"} =>
                 /\ Len(output_texts) = NumRows(df)
                 /\ Cardinality(requests) = NumRows(df)
      /\ pc = "idle" /\ has_processed =>
           /\ Cardinality(requests) = NumRows(original_df)
           /\ Cardinality(outcomes) = NumRows(original_df)

C2_Witness ==
  /\ pc = "text" /\ t = 0
  /\ NumRows(df) >= 2
  /\ Len(output_texts) = NumRows(df)
  /\ OutcomeOf(1).e = "error"
  /\ OutcomeOf(2).e = "response"

(***************************************************************************)
(* C3.  As claimed: every row whose result is error-marked has ten empty   *)
(* FieldSet values in the stored table.                                    *)
(***************************************************************************)
C3_ErrorRowsBlank ==
  RunCompleted =>
    \A k \in 1..NumRows(processed_df) :
       OutcomeOf(k).e = "error" /\ ErrorMarked(ErrorPrefix \o OutcomeOf(k).text)
          => AllFieldsEmpty(k)

(***************************************************************************)
(* C3, amended.  A row whose result is error-marked and has no line that,  *)
(* stripped, starts with a field prefix (every one-line failure message)   *)
(* has ten empty FieldSet values; every row, failed or not, holds for each *)
(* field what the extractor reads in its own result text.                  *)
(***************************************************************************)
C3_ErrorRowsWithoutFieldLinesBlank ==
  RunCompleted =>
    \A k \in 1..NumRows(processed_df) :
       LET o    == OutcomeOf(k)
           text == IF o.e = "error" THEN ErrorPrefix \o o.text ELSE o.text
           ls   == SplitLines(text)
       IN  /\ ErrorMarked(text) /\ (\A j \in 1..Len(ls) : ~IsFieldLine(ls[j]))
              => AllFieldsEmpty(k)
           /\ \A q \in 1..Len(output_cols) :
                 StoredField(k, q) = TextCell(ExpectedValue(ls, Len(ls), output_cols[q]))

C3_Witness ==
  /\ RunCompleted
  /\ NumRows(processed_df) >= 2
  /\ \E k \in 1..NumRows(processed_df) :
        OutcomeOf(k).e = "error" /\ AllFieldsEmpty(k)
  /\ \E k \in 1..NumRows(processed_df) :
        OutcomeOf(k).e = "response" /\ ~AllFieldsEmpty(k)

(***************************************************************************)
(* C4.  A line with no field prefix that comes after a field line is       *)
(* appended, after a line separator, to the field of the latest field line *)
(* and changes no other field; a line before the first field line changes  *)
(* no field; a field whose prefix no line had is the empty string.         *)
(***************************************************************************)
C4_ContinuationGoesToLatestField ==
  [][ pc = "line" /\ li' = li + 1 =>
        LET raw    == lines[li + 1]
            before == { j \in 1..li : IsFieldLine(lines[j]) }
        IN  /\ ~IsFieldLine(raw) /\ before = {} =>
                 out_dict' = out_dict /\ out_dict' = EmptyOutDict
            /\ ~IsFieldLine(raw) /\ before # {} =>
                 LET f == output_cols[CHOOSE q \in FieldsOfLine(lines[Max(before)]) : TRUE]
                 IN  out_dict' = [out_dict EXCEPT ![f] = @ \o <<"\n">> \o Strip(raw)]
            /\ \A f \in FieldSet :
                 (\A j \in 1..(li + 1) : \A q \in FieldsOfLine(lines[j]) : output_cols[q] # f)
                    => out_dict'[f] = <<>>
    ]_vars

C4_Witness ==
  /\ pc = "line" /\ li = 3
  /\ ~IsFieldLine(lines[1]) /\ Strip(lines[1]) # <<>>
  /\ IsFieldLine(lines[2])
  /\ ~IsFieldLine(lines[3]) /\ Strip(lines[3]) # <<>>
  /\ out_dict[current_col] = ValueAfterFirstColon(lines[2]) \o <<"\n">> \o Strip(lines[3])
  /\ \A f \in FieldSet \ {current_col} : out_dict[f] = <<>>

(***************************************************************************)
(* C5.  When a field's prefix starts more than one line of a response, the *)
(* value parsed for the field is the value of its last occurrence and the  *)
(* lines that continue that occurrence: what earlier occurrences gathered  *)
(* is replaced.                                                            *)
(***************************************************************************)
C5_LastOccurrenceWins ==
  pc = "text" /\ t >= 1 =>
    \A f \in FieldSet :
       Cardinality(Occurrences(f)) >= 2 =>
          LET m     == Max(Occurrences(f))
              later == { j \in (m + 1)..Len(lines) : IsFieldLine(lines[j]) }
              stop  == IF later = {} THEN Len(lines) ELSE Min(later) - 1
          IN  parsed_outputs[f][t] = ValueAfterFirstColon(lines[m]) \o Continuation(lines, m + 1, stop)

C5_Witness ==
  /\ pc = "text" /\ t = 1
  /\ \E f \in FieldSet :
        /\ Cardinality(Occurrences(f)) = 2
        /\ ValueAfterFirstColon(lines[Min(Occurrences(f))]) # <<>>
        /\ Min(Occurrences(f)) + 1 < Max(Occurrences(f))
        /\ parsed_outputs[f][1] = ValueAfterFirstColon(lines[Max(Occurrences(f))])

(***************************************************************************)
(* C6.  A stripped line is a field line exactly when it starts with        *)
(* "<fieldName>:" without regard to case; the first such field in FieldSet *)
(* order becomes the current field and gets the trimmed text after the     *)
(* line's first colon; a line writes at most one field.                    *)
(***************************************************************************)
C6_PrefixMatchAssignsOneField ==
  [][ pc = "line" /\ li' = li + 1 =>
        LET raw  == lines[li + 1]
            hits == FieldsOfLine(raw)
        IN  /\ hits # {} =>
                 /\ current_col' = output_cols[Min(hits)]
                 /\ out_dict' = [out_dict EXCEPT ![output_cols[Min(hits)]] = ValueAfterFirstColon(raw)]
            /\ hits = {} =>
                 /\ current_col' = current_col
                 /\ \A f \in FieldSet \ {current_col} : out_dict'[f] = out_dict[f]
            /\ Cardinality({ f \in FieldSet : out_dict'[f] # out_dict[f] }) <= 1
    ]_vars

C6_Witness ==
  /\ pc = "line" /\ li >= 1
  /\ lines[li] = <<"P","R","O","D","U","C","T"," ","T","Y","P","E",":"," ","X">>
  /\ current_col = "Product Type"
  /\ out_dict["Product Type"] = <<"X">>

(***************************************************************************)
(* C7.  As claimed: after a grid edit whose value cannot be coerced into a *)
(* table, while the message of the failure is shown, processed_df is       *)
(* empty.                                                                  *)
(***************************************************************************)
C7_FailedEditResetsTable ==
  editable_table.kind = "unconvertible" /\ "Error updating table" \in messages =>
    processed_df = None

(***************************************************************************)
(* C7, amended.  A grid edit whose value cannot be coerced into a table    *)
(* shows the message and leaves processed_df the table it was; the run     *)
(* that follows ends normally and shows the results section.  processed_df *)
(* is always None or a table, so the guard of lines 146-152 never resets   *)
(* it.                                                                     *)
(***************************************************************************)
C7_FailedEditKeepsTable ==
  [][ /\ edits' = edits + 1 /\ editable_table'.kind = "unconvertible" =>
           "Error updating table" \in messages'
      /\ "Error updating table" \in messages' =>
           /\ edits' = edits + 1
           /\ processed_df' = processed_df
           /\ processed_df'.kind = "DataFrame"
           /\ has_processed' /\ results_shown' /\ pc' = "idle"
      /\ processed_df'.kind \in {"None", "DataFrame"}
    ]_vars

C7_Witness ==
  /\ editable_table.kind = "unconvertible"
  /\ "Error updating table" \in messages
  /\ processed_df.kind = "DataFrame"
  /\ results_shown

(***************************************************************************)
(* C8.  As claimed: when the request for a row after the first is issued,  *)
(* the field mapping of the row before it has been appended.               *)
(***************************************************************************)
C8_ExtractionBeforeNextRequest ==
  pc = "wait" /\ i >= 1 => \A f \in FieldSet : Len(parsed_outputs[f]) >= i

(***************************************************************************)
(* C8, amended.  Rows are handled one at a time in input order: the        *)
(* request for row k carries row k's description and is issued when the    *)
(* results of rows 1..k-1, and no others, are stored.  Field extraction is *)
(* a second pass: it starts after the result of the last row is stored,    *)
(* takes the results in input order, and appends the mapping of one result *)
(* before it splits the next.                                              *)
(***************************************************************************)
C8_TwoPassesInRowOrder ==
  /\ \A p \in EventsOf({"request"}) :
        /\ Cardinality({ q \in EventsOf({"request"}) : q < p }) = events[p].row
        /\ Cardinality({ q \in EventsOf(Outcomes) : q < p }) = events[p].row
        /\ LET frame == IF pc = "idle" THEN original_df ELSE df
           IN  events[p].text = Str(CellOf(frame, frame.data[events[p].row + 1], selected_col))
  /\ pc = "wait" => Len(output_texts) = i /\ it = i + 1
  /\ pc \in {"loop", "call", "wait", "progress", "sleep"} =>
        \A f \in FieldSet : parsed_outputs[f] = <<>>
  /\ pc \in {"text", "line", "assemble"} =>
        /\ Len(output_texts) = NumRows(df)
        /\ Cardinality(EventsOf(Outcomes)) = NumRows(df)
        /\ \A f \in FieldSet : Len(parsed_outputs[f]) = (IF pc = "line" THEN t - 1 ELSE t)
        /\ pc = "line" => lines = SplitLines(output_texts[t])
        /\ pc = "assemble" => t = NumRows(df)

C8_Witness ==
  /\ pc = "line" /\ t = 2 /\ li = 1
  /\ NumRows(df) >= 2
  /\ Len(parsed_outputs["Finish"]) = 1

(***************************************************************************)
(* C9.  The calls of a processing run come in rounds of four, one round    *)
(* per row in row order: the request, its outcome (response or error), one *)
(* progress update, one pause.  So a request is issued only after the      *)
(* outcome, the progress update and the pause of the row before it.        *)
(***************************************************************************)
C9_RequestOutcomeProgressPause ==
  \A p \in 1..Len(events) :
     /\ events[p].row = (p - 1) \div 4
     /\ CASE (p - 1) % 4 = 0 -> events[p].e = "request"
          [] (p - 1) % 4 = 1 -> events[p].e \in Outcomes
          [] (p - 1) % 4 = 2 -> events[p].e = "progress"
          [] OTHER           -> events[p].e = "sleep"

C9_Witness ==
  /\ Len(events) >= 9
  /\ events[2].e = "error"
  /\ events[5].e = "request"
  /\ events[6].e = "response"
  /\ events[9].e = "request"

=============================================================================
